---- MODULE Spec2Model ----
(***************************************************************************)
(* Model of src/src/lib.rs: the batched (segmented) sieve `Primes`, its    *)
(* `Batch` bookkeeping, the shared membership set and `PrimesIterator`.    *)
(*                                                                         *)
(* Numbers are u64 (usize for indices) in the source, and line 121 goes     *)
(* through f64.  The width of the integers and the precision of the floats *)
(* are part of the state (`machine`).  Spec and SpecWatch run on a machine  *)
(* whose types are far wider than the sieved range 0..MaxValue, as u64 and *)
(* f64 are for any range a computer can sieve; SpecWord runs on a machine  *)
(* scaled down so that the sieved range reaches the ceiling of the types.  *)
(***************************************************************************)
EXTENDS Integers, Sequences, FiniteSets, TLC

\* lib.rs:5 is `const MB: u64 = 1_048_576`.  The model scales the unit down
\* so that a whole batch can be enumerated; BATCH_SIZE keeps the shape of
\* lib.rs:6 (ten units), hence stays a composite number as in the source.
MB == 1

BATCH_SIZE == 10 * MB

\* Largest custom width handed to with_batch_size.
MaxWidth == 12

\* The sieved range [0, (current+1)*size) never grows beyond MaxValue, and
\* is_prime is queried for 0..MaxValue.
MaxValue == 30

Widths == (0 .. MaxWidth) \cup {BATCH_SIZE}

\* u64 has 64 bits and f64 a significand of 53 bits.  The wide machine keeps
\* both out of reach of 0..MaxValue; the narrow machine scales them so that
\* 2^NarrowBits lies right above MaxValue, with the significand shorter than
\* the integer as in the source.
WideBits == 16

WideMantissa == 12

NarrowBits == 5

NarrowMantissa == 4

\* Address of the Rc allocation made by Rc::new at construction.
RcAddr == 1

VARIABLES
    inner_slice,     \* Primes.inner_slice: function 0..len-1 -> BOOLEAN
    batch,           \* Primes.batch: [current, size, offset]
    primes_found,    \* Primes.primes_found: the Rc pointer (an address)
    cells,           \* the Rc<RefCell<HashSet<u64>>> allocations: address -> set
    primes_ordered,  \* Primes.primes_ordered
    fault,           \* TRUE once the thread has panicked
    iter,            \* the live PrimesIterator, if any: [live, current]
    produced,        \* the values the live iterator has returned so far
    handles,         \* addresses returned by primes_found_set and still held
    call,            \* the last public call and what it returned
    once_true,       \* a value some earlier is_prime call reported prime, or -1
    machine,         \* the numeric types: [max, mant, checked]
    overflow,        \* TRUE once an integer computation left 0..machine.max
    marks            \* the marker writes of the latest populate_next_batch

vars == << inner_slice, batch, primes_found, cells, primes_ordered, fault,
           iter, produced, handles, call, once_true, machine, overflow, marks >>

Range(s) == { s[i] : i \in 1 .. Len(s) }

SliceLen(slice) == Cardinality(DOMAIN slice)

----------------------------------------------------------------------------
(* Numeric types *)

RECURSIVE Pow2(_)
Pow2(k) == IF k <= 0 THEN 1 ELSE 2 * Pow2(k - 1)

RECURSIVE BitLen(_)
BitLen(x) == IF x <= 0 THEN 0 ELSE 1 + BitLen(x \div 2)

\* max: the largest u64/usize; mant: the bits of the f64 significand;
\* checked: overflow checks compiled in (a debug build panics on overflow)
\* or not (a release build wraps).
Machine(bits, mant, checked) ==
    [max |-> Pow2(bits) - 1, mant |-> mant, checked |-> checked]

\* The value a u64 computation with exact result x leaves when it does not
\* panic.
U64(p, x) == x % (p.machine.max + 1)

Overflows(p, x) == x < 0 \/ x > p.machine.max

\* The engine after a u64 computation with exact result x.
Computed(p, x) ==
    IF Overflows(p, x)
    THEN [p EXCEPT !.overflow = TRUE, !.fault = @ \/ p.machine.checked]
    ELSE p

\* num / den rounded to the nearest integer, ties to even.
RoundHalfEven(num, den) ==
    LET q == num \div den
        r == num % den
    IN  IF 2 * r < den THEN q
        ELSE IF 2 * r > den THEN q + 1
        ELSE IF q % 2 = 0 THEN q ELSE q + 1

\* `x as f64`: the nearest number with `mant` significant bits.
as_f64(mant, x) ==
    IF BitLen(x) <= mant
    THEN x
    ELSE LET ulp == Pow2(BitLen(x) - mant)
         IN  RoundHalfEven(x, ulp) * ulp

\* The exponent of a / b for a >= b > 0: the largest e with b * 2^e <= a.
RECURSIVE QuotientExponent(_, _)
QuotientExponent(a, b) == IF a < 2 * b THEN 0 ELSE 1 + QuotientExponent(a, 2 * b)

\* (a / b).ceil() for floats a, b > 0 holding integers: the quotient is
\* rounded to `mant` significant bits, then rounded up to an integer.
f64_div_ceil(mant, a, b) ==
    IF a < b
    THEN 1
    ELSE LET shift == mant - 1 - QuotientExponent(a, b)
         IN  IF shift >= 0
             THEN LET t == RoundHalfEven(a * Pow2(shift), b)
                  IN  (t + Pow2(shift) - 1) \div Pow2(shift)
             ELSE LET ulp == Pow2(0 - shift)
                  IN  RoundHalfEven(a, b * ulp) * ulp

----------------------------------------------------------------------------
(* Batch *)

Batch_new(batch_size) == [current |-> 0, size |-> batch_size, offset |-> 0]

\* Variant: the offset is not recomputed.
calculate_offset_stale(b) == b

calculate_offset(b) == [b EXCEPT !.offset = b.current * b.size]

update_batch(b, f) == calculate_offset([b EXCEPT !.current = f[b.current]])

----------------------------------------------------------------------------
(* Primes.  The operators work on a record p holding the fields of the     *)
(* struct, with `found` the contents of the set behind primes_found and    *)
(* `fault` set when an index is out of bounds (a panic).                   *)

\* inner_slice[i] = v, with the bounds check of Vec indexing.
set_slice(p, i, v) ==
    IF i \in DOMAIN p.inner_slice
    THEN [p EXCEPT !.inner_slice[i] = v]
    ELSE [p EXCEPT !.fault = TRUE]

\* lib.rs:88-92, the while loop over tmp.
RECURSIVE first_batch_mark(_, _, _)
first_batch_mark(p, i, tmp) ==
    IF p.fault \/ ~(tmp < p.batch.size)
    THEN p
    ELSE first_batch_mark(Computed(set_slice(p, tmp, FALSE), tmp + i),
                          i, U64(p, tmp + i))

\* lib.rs:85-94, the for loop over i.
RECURSIVE first_batch_loop(_, _)
first_batch_loop(p, i) ==
    IF p.fault \/ ~(i < SliceLen(p.inner_slice))
    THEN p
    ELSE first_batch_loop(IF p.inner_slice[i]
                          THEN first_batch_mark(Computed(p, i + i), i,
                                                U64(p, i + i))
                          ELSE p,
                          i + 1)

\* Variant: only index 0 is excluded.
first_batch_init_zero_only(p) == set_slice(p, 0, FALSE)

first_batch_init(p) ==
    LET p0 == set_slice(p, 0, FALSE)
    IN  IF p0.fault THEN p0 ELSE set_slice(p0, 1, FALSE)

populate_first_batch(p) ==
    LET p1 == first_batch_init(p)
    IN  IF p1.fault THEN p1 ELSE first_batch_loop(p1, 2)

\* lib.rs:98-109: the positions still true, in ascending order, plus offset.
\* Variant: the batch offset is not added to the position.
RECURSIVE collect_primes_no_offset(_, _, _)
collect_primes_no_offset(p, i, acc) ==
    IF ~(i < SliceLen(p.inner_slice))
    THEN acc
    ELSE collect_primes_no_offset(p, i + 1,
                                  IF p.inner_slice[i] THEN Append(acc, i) ELSE acc)

\* lib.rs:104: the largest i as u64 + offset that the closure computes.
collect_top(p) ==
    LET set == { i \in DOMAIN p.inner_slice : p.inner_slice[i] }
    IN  IF set = {} THEN 0
        ELSE p.batch.offset + (CHOOSE i \in set : \A j \in set : j <= i)

RECURSIVE collect_primes(_, _, _)
collect_primes(p, i, acc) ==
    IF ~(i < SliceLen(p.inner_slice))
    THEN acc
    ELSE collect_primes(p, i + 1,
                        IF p.inner_slice[i]
                        THEN Append(acc, U64(p, i + p.batch.offset))
                        ELSE acc)

\* Variant: only the ordered sequence is extended.
save_primes_ordered_only(p) ==
    LET primes == collect_primes(p, 0, << >>)
        p0     == Computed(p, collect_top(p))
    IN  IF p0.fault THEN p0
        ELSE [p0 EXCEPT !.primes_ordered = @ \o primes]

\* Variant: the ordered sequence is replaced by the batch's primes.
save_primes_replace(p) ==
    LET primes == collect_primes(p, 0, << >>)
        p0     == Computed(p, collect_top(p))
    IN  IF p0.fault THEN p0
        ELSE [p0 EXCEPT !.found = @ \cup Range(primes),
                        !.primes_ordered = primes]

save_primes(p) ==
    LET primes == collect_primes(p, 0, << >>)
        p0     == Computed(p, collect_top(p))
    IN  IF p0.fault THEN p0
        ELSE [p0 EXCEPT !.found = @ \cup Range(primes),
                        !.primes_ordered = @ \o primes]

\* Variant: the quotient is rounded down.
floor_div(m, offset, prime) == offset \div prime

\* lib.rs:121: (offset as f64 / prime as f64).ceil() as u64.  A division by
\* 0.0 gives infinity (NaN for 0.0 / 0.0), which `as u64` turns into
\* u64::MAX (0 for NaN); `as u64` saturates.
ceil_div(m, offset, prime) ==
    LET a == as_f64(m.mant, offset)
        b == as_f64(m.mant, prime)
        c == IF b = 0 THEN (IF a = 0 THEN 0 ELSE m.max)
                      ELSE IF a = 0 THEN 0 ELSE f64_div_ceil(m.mant, a, b)
    IN  IF c > m.max THEN m.max ELSE c

\* lib.rs:125-126: one marker write, with the index it computes.  A
\* tmp - offset below zero is a u64 underflow: a panic, or a wrapped index.
mark_write(p, prime, tmp) ==
    LET indx == tmp - p.batch.offset
        p0   == Computed(p, indx)
        p1   == [p0 EXCEPT !.marks = @ \cup {[prime |-> prime, tmp |-> tmp,
                                              indx |-> U64(p, indx)]}]
    IN  IF p1.fault THEN p1 ELSE set_slice(p1, U64(p, indx), FALSE)

\* lib.rs:124-129, the while loop over tmp.
RECURSIVE next_batch_mark(_, _, _)
next_batch_mark(p, prime, tmp) ==
    LET bound == p.batch.offset + p.batch.size
        p0    == Computed(p, bound)
    IN  IF p0.fault \/ ~(tmp < U64(p, bound))
        THEN p0
        ELSE LET p1 == mark_write(p0, prime, tmp)
             IN  IF p1.fault THEN p1
                 ELSE next_batch_mark(Computed(p1, tmp + prime), prime,
                                      U64(p, tmp + prime))

\* lib.rs:120-130, the for loop over primes_ordered.
RECURSIVE next_batch_loop(_, _)
next_batch_loop(p, k) ==
    IF p.fault \/ k > Len(p.primes_ordered)
    THEN p
    ELSE LET prime == p.primes_ordered[k]
             mul   == ceil_div(p.machine, p.batch.offset, prime)
         IN  next_batch_loop(next_batch_mark(Computed(p, prime * mul), prime,
                                             U64(p, prime * mul)),
                             k + 1)

\* Variant: the markers of the previous batch are kept.
fill_true_skipped(p) == p

\* lib.rs:118
fill_true(p) == [p EXCEPT !.inner_slice = [i \in DOMAIN @ |-> TRUE]]

\* lib.rs:117: current + 1 and current * size are u64 computations.
advance_batch(p) ==
    LET b  == update_batch(p.batch, [current \in Nat |-> current + 1])
        p0 == Computed(Computed(p, b.current), b.offset)
    IN  [p0 EXCEPT !.batch = [b EXCEPT !.current = U64(p, b.current),
                                       !.offset = U64(p, b.offset)]]

populate_next_batch(p) ==
    LET p1 == advance_batch([p EXCEPT !.marks = {}])
        p2 == IF p1.fault THEN p1 ELSE fill_true(p1)
        p3 == next_batch_loop(p2, 1)
    IN  IF p3.fault THEN p3 ELSE save_primes(p3)

with_batch_size(batch_size, m) ==
    LET s  == [inner_slice    |-> [i \in 0 .. batch_size - 1 |-> TRUE],
               batch          |-> Batch_new(batch_size),
               found          |-> {},
               primes_ordered |-> << >>,
               fault          |-> FALSE,
               machine        |-> m,
               overflow       |-> FALSE,
               marks          |-> {}]
        s1 == populate_first_batch(s)
    IN  IF s1.fault THEN s1 ELSE save_primes(s1)

Primes_new(m) == with_batch_size(BATCH_SIZE, m)

\* The part of the number line the model lets the engine sieve.
InBounds(p) == (p.batch.current + 1) * p.batch.size <= MaxValue

\* lib.rs:139: the loop test of is_prime.
is_prime_test(p, n) == n > U64(p, U64(p, p.batch.current + 1) * BATCH_SIZE)

\* lib.rs:139: the u64 computations of the loop test.
is_prime_bound(p) ==
    Computed(Computed(p, p.batch.current + 1),
             U64(p, p.batch.current + 1) * BATCH_SIZE)

\* Variant: `if` instead of `while`, at most one batch per call.
is_prime_loop_once(p, n) ==
    LET p0 == is_prime_bound(p)
    IN  IF p0.fault \/ ~InBounds(p0) \/ ~is_prime_test(p0, n)
        THEN p0
        ELSE populate_next_batch(p0)

\* Variant: the test comes after the body, one batch at least per call.
RECURSIVE is_prime_loop_do_while(_, _)
is_prime_loop_do_while(p, n) ==
    LET q  == populate_next_batch(p)
        q0 == is_prime_bound(q)
    IN  IF q0.fault \/ ~InBounds(q0) \/ ~is_prime_test(q0, n)
        THEN q0
        ELSE is_prime_loop_do_while(q0, n)

\* lib.rs:139-141.  The loop is cut off once the engine leaves the bounded
\* domain; the action's guard then rejects the call.
RECURSIVE is_prime_loop(_, _)
is_prime_loop(p, n) ==
    LET p0 == is_prime_bound(p)
    IN  IF p0.fault \/ ~InBounds(p0) \/ ~is_prime_test(p0, n)
        THEN p0
        ELSE is_prime_loop(populate_next_batch(p0), n)

is_prime(p, n) ==
    LET q == is_prime_loop(p, n)
    IN  [self |-> q, result |-> n \in q.found]

\* lib.rs:146-148: Rc::clone, the same allocation.
primes_found_set(rc, heap) == [handle |-> rc, heap |-> heap]

----------------------------------------------------------------------------
(* PrimesIterator *)

\* Variant: the loop stops one position early.
next_test_strict(p, current) == current > Len(p.primes_ordered)

\* lib.rs:179: the loop test of next.
next_test(p, current) == current >= Len(p.primes_ordered)

\* lib.rs:179-181, cut off like is_prime_loop.
RECURSIVE next_loop(_, _)
next_loop(p, current) ==
    IF p.fault \/ ~InBounds(p) \/ ~next_test(p, current)
    THEN p
    ELSE next_loop(populate_next_batch(p), current)

\* Variant: the cursor is not moved.
iterator_next_stuck(p, current) ==
    LET q == next_loop(p, current)
    IN  IF ~q.fault /\ current < Len(q.primes_ordered)
        THEN [self |-> Computed(q, current + 1),
              item |-> q.primes_ordered[current + 1],
              current |-> current]
        ELSE [self |-> [q EXCEPT !.fault = TRUE], item |-> -1,
              current |-> current]

\* lib.rs:182-185.  primes_ordered[current] is bounds-checked: reading past
\* the end panics and returns nothing (item -1, cursor not moved).
iterator_next(p, current) ==
    LET q == next_loop(p, current)
    IN  IF ~q.fault /\ current < Len(q.primes_ordered)
        THEN [self |-> Computed(q, current + 1),
              item |-> q.primes_ordered[current + 1],
              current |-> current + 1]
        ELSE [self |-> [q EXCEPT !.fault = TRUE], item |-> -1,
              current |-> current]

----------------------------------------------------------------------------
(* The state machine *)

Self == [inner_slice    |-> inner_slice,
         batch          |-> batch,
         found          |-> cells[primes_found],
         primes_ordered |-> primes_ordered,
         fault          |-> fault,
         machine        |-> machine,
         overflow       |-> overflow,
         marks          |-> marks]

Store(p) ==
    /\ inner_slice' = p.inner_slice
    /\ batch' = p.batch
    /\ cells' = [cells EXCEPT ![primes_found] = p.found]
    /\ primes_ordered' = p.primes_ordered
    /\ fault' = p.fault
    /\ primes_found' = primes_found
    /\ overflow' = p.overflow
    /\ marks' = p.marks
    /\ machine' = machine

NoIter == [live |-> FALSE, current |-> 0]

\* What the caller saw of the last public call: its name, its argument (for
\* with_batch_size: the width; for next: the item returned), its boolean result, the number of batches it
\* computed, whether it repeats the is_prime call right before it, and then
\* the number of batches that first call computed.
\* `again` says that the argument is the value remembered in once_true.
Called(op, n, result, batches, repeat, first_batches, again) ==
    [op |-> op, n |-> n, result |-> result, batches |-> batches,
     repeat |-> repeat, first_batches |-> first_batches, again |-> again]

Plain(op, batches) == Called(op, 0, FALSE, batches, FALSE, 0, FALSE)

\* The machine of Spec and SpecWatch, and the machines of SpecWord: a debug
\* and a release build.
Wide == Machine(WideBits, WideMantissa, TRUE)

Narrow == { Machine(NarrowBits, NarrowMantissa, checked) : checked \in BOOLEAN }

Constructed(machines) ==
    \E w \in Widths, m \in machines :
        LET s == with_batch_size(w, m)
        IN  /\ machine = m
            /\ overflow = s.overflow
            /\ marks = s.marks
            /\ inner_slice = s.inner_slice
            /\ batch = s.batch
            /\ primes_found = RcAddr
            /\ cells = (RcAddr :> s.found)
            /\ primes_ordered = s.primes_ordered
            /\ fault = s.fault
            /\ iter = NoIter
            /\ produced = << >>
            /\ handles = {}
            /\ call = Called("with_batch_size", w, FALSE, 0, FALSE, 0, FALSE)
            /\ once_true = -1

Init == Constructed({Wide})

InitWord == Constructed(Narrow)

\* A direct call of the public populate_next_batch.
PopulateNextBatch ==
    /\ ~fault
    /\ \E q \in {populate_next_batch(Self)} :
           /\ InBounds(q)
           /\ Store(q)
    /\ iter' = NoIter
    /\ produced' = << >>
    /\ call' = Plain("populate_next_batch", 1)
    /\ UNCHANGED << handles, once_true >>

\* is_prime(n).  `watching` belongs to the observer, not to the program: it
\* says whether the observer may remember in once_true a value that the call
\* reported prime.
IsPrime(n, watching) ==
    /\ ~fault
    /\ \E r \in {is_prime(Self, n)} :
       LET repeat == call.op = "is_prime" /\ call.n = n
       IN  /\ InBounds(r.self)
           /\ Store(r.self)
           /\ call' = Called("is_prime", n, r.result,
                             r.self.batch.current - batch.current,
                             repeat,
                             IF repeat THEN call.batches ELSE 0,
                             n = once_true)
           /\ \E watch \in (IF watching /\ r.result THEN BOOLEAN ELSE {FALSE}) :
                  once_true' = IF watch THEN n ELSE once_true
    /\ iter' = NoIter
    /\ produced' = << >>
    /\ UNCHANGED handles

\* Primes::iter: the iterator borrows the engine mutably, so any other call
\* on the engine ends the iterator's life.
Iter ==
    /\ ~fault
    /\ iter' = [live |-> TRUE, current |-> 0]
    /\ produced' = << >>
    /\ call' = Plain("iter", 0)
    /\ UNCHANGED << inner_slice, batch, primes_found, cells, primes_ordered,
                    fault, handles, once_true, machine, overflow, marks >>

PrimesIterator_next ==
    /\ ~fault
    /\ iter.live
    /\ \E r \in {iterator_next(Self, iter.current)} :
           /\ InBounds(r.self)
           /\ Store(r.self)
           /\ iter' = [live |-> TRUE, current |-> r.current]
           /\ produced' = IF r.self.fault THEN produced
                                          ELSE Append(produced, r.item)
           /\ call' = Called("next", r.item, FALSE,
                             r.self.batch.current - batch.current, FALSE, 0,
                             FALSE)
    /\ UNCHANGED << handles, once_true >>

PrimesFoundSet ==
    /\ ~fault
    /\ LET r == primes_found_set(primes_found, cells)
       IN  /\ handles' = handles \cup {r.handle}
           /\ cells' = r.heap
    /\ iter' = NoIter
    /\ produced' = << >>
    /\ call' = Plain("primes_found_set", 0)
    /\ UNCHANGED << inner_slice, batch, primes_found, primes_ordered, fault,
                    once_true, machine, overflow, marks >>

Next ==
    \/ PopulateNextBatch
    \/ \E n \in 0 .. MaxValue : IsPrime(n, FALSE)
    \/ Iter
    \/ PrimesIterator_next
    \/ PrimesFoundSet

Spec == Init /\ [][Next]_vars

\* The same program, with the observer free to remember any value that an
\* is_prime call reported prime.
NextWatch ==
    \/ PopulateNextBatch
    \/ \E n \in 0 .. MaxValue : IsPrime(n, TRUE)
    \/ Iter
    \/ PrimesIterator_next
    \/ PrimesFoundSet

SpecWatch == Init /\ [][NextWatch]_vars

\* The same program on the narrow machine.
SpecWord == InitWord /\ [][Next]_vars

----------------------------------------------------------------------------
(* Reference notions the properties are stated against *)

IsPrimeNumber(n) == n >= 2 /\ \A d \in 2 .. (n - 1) : n % d # 0

PrimesBelow(m) == { q \in 0 .. (m - 1) : IsPrimeNumber(q) }

StrictlyIncreasing(s) == \A i, j \in 1 .. Len(s) : i < j => s[i] < s[j]

IsPrefix(s, t) == Len(s) <= Len(t) /\ SubSeq(t, 1, Len(s)) = s

Found == cells[primes_found]

SievedBound == (batch.current + 1) * batch.size

----------------------------------------------------------------------------
(* Properties *)

\* C1: on an engine whose width is the global BATCH_SIZE, every is_prime(n)
\* call, whatever calls came before it, returns true exactly when n is a
\* prime number.
C1_IsPrimeDefaultWidth ==
    (call.op = "is_prime" /\ batch.size = BATCH_SIZE)
        => (call.result <=> IsPrimeNumber(call.n))

C1_Witness ==
    /\ call.op = "is_prime"
    /\ batch.size = BATCH_SIZE
    /\ call.batches > 0
    /\ call.n > BATCH_SIZE
    /\ call.result

\* C2: the k-th value a cursor has produced since Primes::iter is the k-th
\* prime number, for every width and whatever extended the engine before.
C2_CursorYieldsKthPrime ==
    \A k \in 1 .. Len(produced) :
        /\ IsPrimeNumber(produced[k])
        /\ Cardinality(PrimesBelow(produced[k] + 1)) = k

C2_Witness ==
    /\ iter.live
    /\ Len(produced) >= 5
    /\ produced[5] = 11
    /\ batch.size \notin {BATCH_SIZE}
    /\ call.op = "next"
    /\ call.batches > 0

\* C3: for every width, after construction and after any number of batches,
\* the Prime Store holds exactly the prime numbers of the sieved range
\* [0, (current+1)*size): no recorded value has a divisor among the other
\* recorded values, and no prime of the range is missing.
C3_StoreIsPrimesOfSievedRange ==
    ~fault =>
        /\ Found = PrimesBelow(SievedBound)
        /\ Range(primes_ordered) = PrimesBelow(SievedBound)
        /\ \A v \in Found : \A p \in Found : p # v => v % p # 0

C3_Witness ==
    /\ ~fault
    /\ batch.size = 2
    /\ batch.current >= 12
    /\ 23 \in Found

\* C4: on an engine built with a width other than BATCH_SIZE, is_prime(n)
\* returns true exactly when n is a prime number.
C4_IsPrimeCustomWidth ==
    (call.op = "is_prime" /\ batch.size # BATCH_SIZE)
        => (call.result <=> IsPrimeNumber(call.n))

\* C5: once is_prime(V) has returned, every handle obtained from
\* primes_found_set before that call contains every prime number <= V.
C5_HandleHoldsPrimesUpToV ==
    call.op = "is_prime" =>
        \A h \in handles : PrimesBelow(call.n + 1) \subseteq cells[h]

\* Behind C5: a handle is the engine's own allocation, so it shows the live
\* set; and on an engine of width BATCH_SIZE it holds every prime <= V.
HandleAliasesLiveSet == \A h \in handles : cells[h] = Found

HandleHoldsPrimesUpToV_DefaultWidth ==
    (call.op = "is_prime" /\ batch.size = BATCH_SIZE) =>
        \A h \in handles : PrimesBelow(call.n + 1) \subseteq cells[h]

\* C6: between public operations the values of primes_ordered are exactly
\* the values of the membership set.
C6_ViewsInSync == Range(primes_ordered) = Found

C6_Witness ==
    /\ batch.current >= 2
    /\ Len(primes_ordered) >= 5
    /\ call.op \in {"populate_next_batch", "is_prime", "next"}

\* C7: primes_ordered is strictly increasing in every reachable state, and
\* so is the sequence of values a cursor has produced.
C7_StrictlyIncreasing ==
    /\ StrictlyIncreasing(primes_ordered)
    /\ StrictlyIncreasing(produced)

C7_Witness ==
    /\ call.op = "next"
    /\ call.batches > 0
    /\ batch.current >= 2
    /\ Len(produced) >= 4

\* C8: every step leaves the old ordered sequence a prefix of the new one
\* and the old membership set a subset of the new one, and an is_prime call
\* on a value that an earlier call reported prime answers true.
C8_StoreOnlyGrows ==
    [][ /\ IsPrefix(primes_ordered, primes_ordered')
        /\ Found \subseteq Found'
        /\ (call'.op = "is_prime" /\ call'.n = once_true) => call'.result
      ]_vars

C8_Witness ==
    /\ call.op = "is_prime"
    /\ call.again
    /\ ~call.repeat
    /\ call.result
    /\ batch.current >= 1

\* C9: an is_prime(n) call made directly after an is_prime(n) call returns
\* the same result and leaves the batch, the marker array and the Prime
\* Store as they were.
C9_SecondCallChangesNothing ==
    [][ (call.op = "is_prime" /\ call'.op = "is_prime" /\ call'.n = call.n)
            => /\ call'.result = call.result
               /\ call'.batches = 0
               /\ batch' = batch
               /\ inner_slice' = inner_slice
               /\ primes_ordered' = primes_ordered
               /\ cells' = cells
      ]_vars

C9_Witness ==
    /\ call.op = "is_prime"
    /\ call.repeat
    /\ call.first_batches > 0
    /\ call.result

\* C10: 0 and 1 are in neither view of the Prime Store in any reachable
\* state, and is_prime(0) and is_prime(1) return false.
C10_ZeroAndOneNeverPrime ==
    /\ Found \cap {0, 1} = {}
    /\ Range(primes_ordered) \cap {0, 1} = {}
    /\ (call.op = "is_prime" /\ call.n \in {0, 1}) => ~call.result

C10_Witness ==
    /\ call.op = "is_prime"
    /\ call.n = 1
    /\ batch.current >= 1
    /\ Len(primes_ordered) >= 3

\* C11: for every positive width w, with_batch_size(w) completes without
\* fault and leaves batch index 0, a marker array of length w and a Prime
\* Store holding exactly the primes below w.
C11_ConstructionSucceeds ==
    (call.op = "with_batch_size" /\ call.n >= 1) =>
        /\ ~fault
        /\ batch.current = 0
        /\ SliceLen(inner_slice) = call.n
        /\ Found = PrimesBelow(call.n)
        /\ Range(primes_ordered) = PrimesBelow(call.n)

\* Behind C11: the same statement for every width from 2 on.
ConstructionSucceedsFromTwo ==
    (call.op = "with_batch_size" /\ call.n >= 2) =>
        /\ ~fault
        /\ batch.current = 0
        /\ SliceLen(inner_slice) = call.n
        /\ Found = PrimesBelow(call.n)
        /\ Range(primes_ordered) = PrimesBelow(call.n)

\* C12: whenever is_prime(n) has returned, n lies inside the sieved range,
\* n < (current+1)*size, also when n is an exact multiple of the width.
C12_AnswerReadInsideSievedRange ==
    call.op = "is_prime" => call.n < SievedBound

\* Behind C12: on an engine of width BATCH_SIZE the only values answered
\* from outside the sieved range are the exact multiples of the width.
OnlyMultiplesAnsweredUnsieved ==
    (call.op = "is_prime" /\ batch.size = BATCH_SIZE /\ call.n % BATCH_SIZE # 0)
        => call.n < SievedBound

\* C13: in every state offset = current * size; construction leaves index 0
\* and the width it was given; no step changes the width or lowers the
\* index, and a populate_next_batch call raises the index by exactly 1.
C13_BatchBookkeeping ==
    /\ [](/\ batch.offset = batch.current * batch.size
          /\ call.op = "with_batch_size" =>
                 (batch.current = 0 /\ batch.size = call.n))
    /\ [][ /\ batch'.size = batch.size
           /\ batch'.current >= batch.current
           /\ call'.op = "populate_next_batch" =>
                  batch'.current = batch.current + 1
         ]_vars

C13_Witness ==
    /\ call.op = "populate_next_batch"
    /\ batch.current >= 3
    /\ batch.size = 7
    /\ batch.offset = 21

----------------------------------------------------------------------------
(* C14 *)

\* The primes the engine knew when it started on the current batch.
KnownPrimes == { v \in Range(primes_ordered) : v < batch.offset }

\* The multiples of prime that lie in the current batch.
MultiplesInBatch(prime) ==
    { v \in batch.offset .. batch.offset + batch.size - 1 : v % prime = 0 }

\* The values the latest populate_next_batch marked for prime.
MarkedFor(prime) == { m.tmp : m \in { x \in marks : x.prime = prime } }

\* C14: in populate_next_batch, for every known prime the values marked are
\* exactly the multiples of the prime inside the batch, so the first one is
\* the smallest multiple at or above the offset and none is skipped; every
\* write goes to index tmp - offset, which lies in 0 .. width - 1; nothing
\* is written out of bounds, and the marker array keeps its length.
C14_MarksStartAtFirstMultiple ==
    batch.current >= 1 =>
        /\ ~fault
        /\ SliceLen(inner_slice) = batch.size
        /\ \A m \in marks :
               /\ m.prime \in KnownPrimes
               /\ m.indx = m.tmp - batch.offset
               /\ m.indx \in 0 .. batch.size - 1
        /\ \A prime \in KnownPrimes : MarkedFor(prime) = MultiplesInBatch(prime)

\* Batch 2 of a width-7 engine, [14, 21): 14 is a multiple of 7 that is the
\* offset itself, 5 has its last multiple at the last index, and 13 has no
\* multiple in the batch.
C14_Witness ==
    /\ call.op = "populate_next_batch"
    /\ batch.size = 7 /\ batch.current = 2
    /\ [prime |-> 7, tmp |-> 14, indx |-> 0] \in marks
    /\ [prime |-> 5, tmp |-> 20, indx |-> 6] \in marks
    /\ 13 \in KnownPrimes /\ MarkedFor(13) = {}

----------------------------------------------------------------------------
(* C15 *)

\* The largest range an engine of the current width sieves inside the
\* bounded domain.
DomainBound == (MaxValue \div batch.size) * batch.size

\* C15: an advance of the cursor always returns a prime and moves the cursor
\* forward by exactly one, never an end of sequence and never a panic; and
\* the loop of next() ends after finitely many batches: whenever the prime
\* the cursor stands before lies in the bounded domain, the advance
\* completes inside it, batches without a prime included.
C15_AdvanceAlwaysYieldsAPrime ==
    /\ []((/\ iter.live /\ ~fault /\ batch.size >= 2
           /\ Cardinality(PrimesBelow(DomainBound)) > iter.current)
              => \E r \in {iterator_next(Self, iter.current)} :
                     ~r.self.fault /\ InBounds(r.self))
    /\ [][call'.op = "next" =>
              /\ ~fault'
              /\ iter'.live
              /\ iter'.current = iter.current + 1
              /\ IsPrimeNumber(call'.n)
              /\ produced' = Append(produced, call'.n)]_vars

\* A width-2 engine: the advance that returns 11 first computes [8, 10),
\* which holds no prime, and then [10, 12).
C15_Witness ==
    /\ call.op = "next" /\ call.n = 11 /\ call.batches = 2
    /\ batch.size = 2
    /\ iter.current = 5

----------------------------------------------------------------------------
(* C16 *)

\* The upper bound of the batch that covers n.
CoveringBound(n) == ((n \div batch.size) + 1) * batch.size

\* C16: for every n whose covering batch has an upper bound that fits in the
\* integer type, is_prime(n) completes with a boolean, and none of its
\* computations overflows.
C16_NoFailureBelowTheIntegerLimit ==
    (/\ call.op = "is_prime"
     /\ batch.size >= 1
     /\ CoveringBound(call.n) <= machine.max)
        => ~fault /\ ~overflow

\* On the wide machine no computation leaves the integer type and line 121
\* is exact.
WideMachineNeverOverflows == ~overflow

\* On the narrow machine the default engine sieves batch 0 and batch 1
\* without a failure.
NarrowMachineFirstBatches ==
    (batch.size = BATCH_SIZE /\ batch.current <= 1) => ~fault /\ ~overflow

============================================================================
